---- MODULE Spec2Model ----
(***************************************************************************)
(* Model of mlens/parallel/estimation.py: the layer estimation engine      *)
(* (BaseEstimator.fit / predict / transform), its task functions           *)
(* (fit_trans, fit_est, predict_est, predict_fold_est), the wait for a     *)
(* transformer artifact (_load_trans) and the fault wrappers.              *)
(*                                                                         *)
(* Names are sequences of the parts that Python joins with '__': the case  *)
(* 'c' is <<1>>, its fold k is <<1, k>>; estimator i is <<i>> and its fold *)
(* clone <<i, k>>.  An optional value is a sequence of length 0 or 1.      *)
(***************************************************************************)
EXTENDS Integers, Sequences, FiniteSets, TLC

\* ------------------------------------------------------------------ bounds
NFolds == 2
NEst == 2
NSteps == 2
NRows == 4
NJobs == 2
Lim == 2
Ival == 1
Jitter == 1
NClasses == 2
SliceLen == 3
Shift == 1

VARIABLES
    op,         \* the public operation in progress or last called ("" = none yet)
    X,          \* the number of rows of the input X of the call (row r is r itself)
    layer,      \* the Layer: raise_on_exception, n_pred, n_prep, estimators_, preprocessing_
    engine,     \* the BaseEstimator: dual, t (optional), e
    fault,      \* which call of which learnable object raises in this run
    cache,      \* Cache Store: key -> payload, for the keys that exist
    P,          \* PredictionMatrix: row -> column -> value (0 = never written)
    wr,         \* for each cell, the tasks of the current call that wrote it
    phase,      \* where the public call stands
    err,        \* the exception the public call raised ("" = none)
    warned,     \* warnings emitted so far, as a set of <<category, task>>
    wave,       \* the tasks handed to the parallel-for call in progress
    tst         \* each such task's state: pc and its locals

vars == <<op, X, layer, engine, fault, cache, P, wr, phase, err, warned, wave, tst>>

\* ------------------------------------------------------------ small helpers
Some(v) == <<v>>
Nothing == <<>>
IsSome(o) == Len(o) = 1
The(o) == o[1]

Range(f) == {f[i] : i \in DOMAIN f}

RECURSIVE Flatten(_)
Flatten(ss) == IF ss = <<>> THEN <<>> ELSE Head(ss) \o Flatten(Tail(ss))
\* Python's seq[lo:hi] for 0 <= lo, 0 <= hi
PySlice(seq, lo, hi) ==
    LET h == IF hi < Len(seq) THEN hi ELSE Len(seq)
    IN IF lo >= h THEN <<>> ELSE SubSeq(seq, lo + 1, h)

\* ---------------------------------------------------------------- TaskSpec
\* The Layer's task lists: one root case fitted on all rows and one case per
\* fold, each holding the same preprocessing steps and the same estimators.
RootCase == <<1>>
FoldCase(k) == <<1, k>>
CaseOf(j) == IF j = 0 THEN RootCase ELSE FoldCase(j)

\* An index: None, one (start, stop) range, or a sequence of ranges.
IdxNone == [kind |-> "none", rs |-> <<>>]
IdxRange(a, b) == [kind |-> "range", rs |-> << <<a, b>> >>]
IdxRanges(rs) == [kind |-> "ranges", rs |-> rs]

\* The folds split the last NRows rows of X, the rows P has a row for; the
\* rows of X before them are training rows of every fold.
FoldStart(k) == (X - NRows) + ((k - 1) * NRows) \div NFolds
FoldStop(k) == (X - NRows) + (k * NRows) \div NFolds
TestIdx(k) == IdxRange(FoldStart(k), FoldStop(k))
TrainIdx(k) ==
    LET lo == <<0, FoldStart(k)>>
        hi == <<FoldStop(k), X>>
    IN IF FoldStart(k) = 0 THEN IdxRange(hi[1], hi[2])
       ELSE IF FoldStop(k) = X THEN IdxRange(lo[1], lo[2])
       ELSE IdxRanges(<<lo, hi>>)

InstName(i, j) == IF j = 0 THEN <<i>> ELSE <<i, j>>
Steps(n) == [s \in 1..n |-> s]

\* self.t: (case, tri, tei, instance_list) per case, root case first.
TList(n) ==
    [m \in 1..(NFolds + 1) |->
        [case |-> CaseOf(m - 1),
         tri |-> IF m = 1 THEN IdxNone ELSE TrainIdx(m - 1),
         tei |-> IdxNone,
         inst |-> Steps(n)]]

\* self.e: the root case's estimators first (n_pred of them), then the folds'.
EList ==
    [m \in 1..(NFolds + 1) |->
        [case |-> CaseOf(m - 1),
         tri |-> IF m = 1 THEN IdxNone ELSE TrainIdx(m - 1),
         tei |-> IF m = 1 THEN IdxNone ELSE TestIdx(m - 1),
         inst |-> [i \in 1..NEst |-> InstName(i, m - 1)]]]

\* self.c: the column offset of every (case, instance name); an estimator and
\* its fold clones share a column, engine.c columns after the estimator before.
ColOf(case, name) == (name[1] - 1) * engine.c
NCols == NEst * NClasses

\* ------------------------------------------------------------ Slice Engine
\* (variant: a range that takes its stop row in)
arange_closed(a, b) == [i \in 1..(b - a + 1) |-> a + i - 1]
\* np.arange(a, b)
arange(a, b) == [i \in 1..(b - a) |-> a + i - 1]
\* np.hstack(arrays)
hstack(arrays) == Flatten(arrays)
\* a[idx] for an integer array idx: row idx[i] of a, counted from the end when
\* negative; an index outside -len(a) .. len(a) - 1 is an IndexError
InBounds(a, idx) == \A i \in DOMAIN idx : idx[i] \in (0 - Len(a))..(Len(a) - 1)
Take(a, idx) ==
    [i \in DOMAIN idx |-> a[(IF idx[i] < 0 THEN idx[i] + Len(a) ELSE idx[i]) + 1]]

\* _slice_array(x, y, idx): x and y (optional) as sequences of rows; the
\* sliced x and y and the resolved index (None stays None), or the exception
_slice_array(x, y, idx) ==
    LET res == IF idx.kind = "ranges"
               THEN hstack([m \in DOMAIN idx.rs |-> arange(idx.rs[m][1], idx.rs[m][2])])
               ELSE arange(idx.rs[1][1], idx.rs[1][2])
    IN IF idx.kind = "none"
       THEN [x |-> x, y |-> y, idx |-> Nothing, err |-> ""]
       ELSE IF idx.rs = <<>> \/ ~InBounds(x, res) \/ (IsSome(y) /\ ~InBounds(The(y), res))
       THEN [x |-> <<>>, y |-> Nothing, idx |-> Nothing, err |-> "IndexError"]
       ELSE [x |-> Take(x, res),
             y |-> IF IsSome(y) THEN Some(Take(The(y), res)) ELSE Nothing,
             idx |-> Some(res), err |-> ""]

\* The X of a run: n rows, row r holding r, never transformed; its slice.
SliceX(n, idx) ==
    LET sl == _slice_array(arange(0, n), Nothing, idx)
    IN [x |-> [rows |-> sl.x, tr |-> <<>>], idx |-> sl.idx]

\* ------------------------------------------------------- learnable objects
\* The run's one failing call, if any: k says which call, (case, name) whose.
NoFault == [k |-> "none", case |-> <<>>, name |-> <<>>]
Fails(k, case, name) == fault.k = k /\ fault.case = case /\ fault.name = name

\* tr.fit(x, y): the fitted step remembers what it was fitted on.
TrFit(x, tr_name) ==
    [name |-> tr_name, rows |-> x.rows, pre |-> [m \in DOMAIN x.tr |-> x.tr[m].name]]
\* tr.transform(x)
TrTransform(x, tr) == [rows |-> x.rows, tr |-> Append(x.tr, tr)]
\* est.fit(x, y)
EstFit(x, inst_name) == [name |-> inst_name, rows |-> x.rows, tr |-> x.tr]
\* getattr(est, attr)(x): one value per row of x (the estimator's number), in
\* one column for 'predict' and NClasses columns for 'predict_proba'
EstPredict(x, est, attr) ==
    [rows |-> x.rows, v |-> est.name[1], tr |-> x.tr,
     width |-> IF attr = "predict" THEN 1 ELSE NClasses, ndim |-> IF attr = "predict" THEN 1 ELSE 2]

Ok(v) == [err |-> "", warn |-> "", val |-> Some(v)]
Raised(e) == [err |-> e, warn |-> "", val |-> Nothing]
WarnedNone(w) == [err |-> "", warn |-> w, val |-> Nothing]

\* ------------------------------------------------------------ fault wrappers
\* stage: which loop calls the wrapper ("tr_chain", "tr_train", "tr_test", "tr_call")
_fit_tr(x, tr_name, case) ==
    IF Fails("tr_fit", case, <<tr_name>>) THEN Raised("FitFailedError")
    ELSE Ok(TrFit(x, tr_name))

\* (variant: the except clause of _transform_tr swallows the exception)
_transform_tr_swallow(x, tr, case, stage) == Ok(TrTransform(x, tr))

_transform_tr(x, tr, case, stage) ==
    IF Fails(stage, case, <<tr.name>>) THEN Raised("FitFailedError")
    ELSE Ok(TrTransform(x, tr))

_fit_est(x, raise_on_exception, inst_name, case) ==
    IF Fails("est_fit", case, inst_name)
    THEN IF raise_on_exception THEN Raised("FitFailedError")
         ELSE WarnedNone("FitFailedWarning")
    ELSE Ok(EstFit(x, inst_name))

\* est is optional: None has no predict attribute, which raises inside the try.
_predict_est(x, est, raise_on_exception, inst_name, case, attr, stage) ==
    IF ~IsSome(est) \/ Fails(stage, case, inst_name)
    THEN IF raise_on_exception THEN Raised("PredictFailedError")
         ELSE WarnedNone("PredictFailedWarning")
    ELSE Ok(EstPredict(x, The(est), attr))

\* for tr_name, tr in tr_list: x = _transform_tr(x, tr, ...)
RECURSIVE TransformAll(_, _, _, _)
TransformAll(x, tr_list, case, stage) ==
    IF tr_list = <<>> THEN Ok(x)
    ELSE LET r == _transform_tr(x, Head(tr_list), case, stage)
         IN IF r.err # "" THEN r
            ELSE TransformAll(The(r.val), Tail(tr_list), case, stage)

\* -------------------------------------------------------- PredictionMatrix
Rows == 0..(NRows - 1)
Cols == 0..(NCols - 1)
\* A cell: the value, the row of X it is the prediction for, and the fitted
\* steps the input went through (a cell never written: 0, no row, no step).
ZeroCell == [v |-> 0, row |-> -1, tr |-> <<>>]
Zeros == [r \in Rows |-> [c \in Cols |-> ZeroCell]]
NoWrites == [r \in Rows |-> [c \in Cols |-> {}]]

\* numpy's reading of row index i of an array of n rows (None: IndexError)
NpIndex(i, n) ==
    IF 0 <= i /\ i < n THEN Some(i)
    ELSE IF -n <= i /\ i < 0 THEN Some(n + i)
    ELSE Nothing

\* pred[rows, cols] = p, rows[m] taking the prediction for row src[m] of X
RECURSIVE SetCells(_, _, _, _, _)
SetCells(M, rows, src, cols, v) ==
    IF rows = <<>> THEN M
    ELSE SetCells([M EXCEPT ![Head(rows)] =
                        [c \in DOMAIN @ |->
                            IF c \in cols THEN [v |-> v.v, row |-> Head(src), tr |-> v.tr]
                            ELSE @[c]]],
                  Tail(rows), Tail(src), cols, v)

RECURSIVE NoteCells(_, _, _, _)
NoteCells(W, rows, cols, id) ==
    IF rows = <<>> THEN W
    ELSE NoteCells([W EXCEPT ![Head(rows)] =
                        [c \in DOMAIN @ |-> IF c \in cols THEN @[c] \cup {id} ELSE @[c]]],
                   Tail(rows), cols, id)

\* (variant: the column range runs one past the prediction's width)
PColsWide(p, col) == col..(col + p.width)

\* The columns an assignment of p at offset col addresses, and whether numpy
\* accepts them (a column past the matrix is an IndexError).
PCols(p, col) == IF p.ndim = 1 THEN {col} ELSE col..(col + p.width - 1)

\* A write request: target rows (already resolved), their source rows, columns.
NoWrite == [rows |-> <<>>, src |-> <<>>, cols |-> {}, v |-> 0, tr |-> <<>>]

\* ------------------------------------------------------------- Cache Store
KeyT(case) == <<case, <<>>, "t">>
\* (variant: an estimator key that leaves the instance name out)
KeyE_case(case, inst_name) == <<case, <<>>, "e">>
KeyE(case, inst_name) == <<case, inst_name, "e">>
\* The file name of a key: '%s__%s__e' % (case, inst_name) or '%s__t' % case,
\* as the sequence of its '__'-separated parts (suffix e is -1, t is -2).
Path(key) == key[1] \o key[2] \o << (IF key[3] = "e" THEN -1 ELSE -2) >>
exists(key) == key \in DOMAIN cache
pickle_load(key) == cache[key]
pickle_save(payload, key) ==
    [k \in DOMAIN cache \cup {key} |-> IF k = key THEN payload ELSE cache[k]]

\* ------------------------------------------------------------------- tasks
\* One delayed call: the function and the arguments that differ between tasks
\* (the others are read from the layer and the engine).
TransName == <<0>>
Task(fn, case, inst_name, inst, tri, tei, col, tr_list, est) ==
    [fn |-> fn, case |-> case, inst_name |-> inst_name, inst |-> inst, tri |-> tri,
     tei |-> tei, col |-> col, tr_list |-> tr_list, est |-> est]

\* _fit(**kwargs): the function a task of the combined loop runs
_fit(d) == IF d.inst_name = TransName THEN "fit_trans" ELSE "fit_est"
FnOf(d) == IF d.fn = "_fit" THEN _fit(d) ELSE d.fn

\* The keyword arguments a delayed call is given.  fit's combined loop passes
\* no attr; _fit hands on the keywords that are names of the chosen function.
Kwargs(d) ==
    IF d.fn = "fit_trans" THEN {"dir", "case", "inst", "X", "y", "idx", "name"}
    ELSE IF d.fn = "fit_est"
    THEN {"dir", "case", "inst_name", "inst", "X", "y", "pred", "idx", "name",
          "raise_on_exception", "preprocess", "ivals", "attr", "scorer"}
    ELSE IF d.fn = "_fit"
    THEN {"dir", "case", "inst_name", "inst", "X", "y", "pred", "idx", "name",
          "raise_on_exception", "preprocess", "ivals", "scorer"}
    ELSE IF d.fn = "predict_est"
    THEN {"case", "tr_list", "inst_name", "est", "xtest", "pred", "col", "name", "attr"}
    ELSE {"case", "tr_list", "inst_name", "est", "xtest", "pred", "idx", "name", "attr"}
\* the parameters without a default of each task function
Required(f) ==
    IF f = "fit_trans" THEN {"dir", "case", "inst", "X", "y", "idx", "name"}
    ELSE IF f = "fit_est"
    THEN {"dir", "case", "inst_name", "inst", "X", "y", "pred", "idx",
          "raise_on_exception", "preprocess", "name", "ivals", "attr"}
    ELSE IF f = "predict_est"
    THEN {"case", "tr_list", "inst_name", "est", "xtest", "pred", "col", "name", "attr"}
    ELSE {"case", "tr_list", "inst_name", "est", "xtest", "pred", "idx", "name", "attr"}
\* calling the task function with these keywords: the exception, or ""
BindError(d) == IF Required(FnOf(d)) \subseteq Kwargs(d) THEN "" ELSE "TypeError"

pred_method == IF layer.proba THEN "predict_proba" ELSE "predict"
\* preprocess = self.t is not None
preprocess == IsSome(engine.t)

\* What the body of a task leaves behind: the exception it raised if any, the
\* warnings it emitted, its write into the matrix, what it will save.
Outcome(e, warns, write, payload) ==
    [err |-> e, warns |-> warns, write |-> write, payload |-> payload]
Abort(e, warns) == Outcome(e, warns, NoWrite, Nothing)

\* fit_trans, the loop over the case's steps
RECURSIVE fit_trans_loop(_, _, _, _, _)
fit_trans_loop(rest, n, x, out, case) ==
    IF rest = <<>> THEN Outcome("", {}, NoWrite, Some(out))
    ELSE LET f == _fit_tr(x, Head(rest), case)
         IN IF f.err # "" THEN Abort(f.err, {})
            ELSE LET tr == The(f.val)
                     t == IF n > 1 THEN _transform_tr(x, tr, case, "tr_chain") ELSE Ok(x)
                 IN IF t.err # "" THEN Abort(t.err, {})
                    ELSE fit_trans_loop(Tail(rest), n, The(t.val), Append(out, tr), case)

\* fit_trans up to its pickle_save
fit_trans_body(d) ==
    fit_trans_loop(d.inst, Len(d.inst), SliceX(X, d.tri).x, <<>>, d.case)

\* (variant: the assignment takes every row of the columns)
MatrixWrite_column(p, tei, col, warns, payload) ==
    Outcome("", warns,
            [rows |-> arange(0, NRows), src |-> arange(0, NRows),
             cols |-> PCols(p, col) \cap Cols, v |-> p.v, tr |-> p.tr],
            payload)

\* pred[tei, col] = p / pred[np.ix_(tei, cols)] = p, tei already rebased
MatrixWrite(p, tei, col, warns, payload) ==
    LET at == [m \in DOMAIN tei |-> NpIndex(tei[m], NRows)]
        cols == PCols(p, col)
    IN IF (\E m \in DOMAIN at : ~IsSome(at[m])) \/ ~(cols \subseteq Cols)
       THEN Abort("IndexError", warns)
       ELSE Outcome("", warns,
                    [rows |-> [m \in DOMAIN at |-> The(at[m])], src |-> p.rows,
                     cols |-> cols, v |-> p.v, tr |-> p.tr],
                    payload)

\* fit_est from "Transform input" to just before its pickle_save
fit_est_body(d, tr_list) ==
    LET roe == layer.raise_on_exception
        xt == TransformAll(SliceX(X, d.tri).x, tr_list, d.case, "tr_train")
        fe == _fit_est(The(xt.val), roe, d.inst_name, d.case)
        w1 == IF fe.warn # "" THEN {fe.warn} ELSE {}
        sl == SliceX(X, d.tei)
        xs == TransformAll(sl.x, tr_list, d.case, "tr_test")
        pe == _predict_est(The(xs.val), fe.val, roe, d.inst_name, d.case,
                           pred_method, "est_predict")
        w2 == IF pe.warn # "" THEN w1 \cup {pe.warn} ELSE w1
        p == The(pe.val)
        rebase == X - NRows
        tei == [m \in DOMAIN The(sl.idx) |-> The(sl.idx)[m] - rebase]
        s == IF layer.scorer THEN Some(p.v) ELSE Nothing
    IN IF xt.err # "" THEN Abort(xt.err, {})
       ELSE IF fe.err # "" THEN Abort(fe.err, {})
       ELSE IF d.tei.kind = "none"
            THEN Outcome("", w1, NoWrite,
                         Some([inst_name |-> d.inst_name, est |-> fe.val,
                               idx |-> <<IdxNone, d.col>>, s |-> Nothing]))
       ELSE IF xs.err # "" THEN Abort(xs.err, w1)
       ELSE IF pe.err # "" THEN Abort(pe.err, w1)
       ELSE IF ~IsSome(pe.val) THEN Abort("AttributeError", w2)
       ELSE MatrixWrite(p, tei, d.col, w2,
                        Some([inst_name |-> d.inst_name, est |-> fe.val,
                              idx |-> <<d.tei, d.col>>, s |-> s]))

\* (variant: predict_est passes the layer's raise_on_exception to _predict_est
\* and skips the write when no prediction came back)
predict_est_lenient(d) ==
    LET xt == TransformAll([rows |-> arange(0, X), tr |-> <<>>], d.tr_list, d.case, "tr_call")
        pe == _predict_est(The(xt.val), d.est, layer.raise_on_exception, d.inst_name,
                           d.case, pred_method, "est_call")
    IN IF xt.err # "" THEN Abort(xt.err, {})
       ELSE IF pe.err # "" THEN Abort(pe.err, {})
       ELSE IF ~IsSome(pe.val) THEN Outcome("", {pe.warn}, NoWrite, Nothing)
       ELSE IF X # NRows THEN Abort("ValueError", {})
       ELSE MatrixWrite(The(pe.val), arange(0, NRows), d.col, {}, Nothing)

\* predict_est: transform all of X, predict (failures coerced to errors),
\* pred[:, col] = p
predict_est_body(d) ==
    LET xt == TransformAll([rows |-> arange(0, X), tr |-> <<>>], d.tr_list, d.case, "tr_call")
        pe == _predict_est(The(xt.val), d.est, TRUE, d.inst_name, d.case,
                           pred_method, "est_call")
        p == The(pe.val)
    IN IF xt.err # "" THEN Abort(xt.err, {})
       ELSE IF pe.err # "" THEN Abort(pe.err, {})
       ELSE IF X # NRows THEN Abort("ValueError", {})
       ELSE MatrixWrite(p, arange(0, NRows), d.col, {}, Nothing)

\* (variant: predict_fold_est that predicts for every row, as predict_est does)
predict_fold_est_full(d) == predict_est_body(d)

\* (variant: predict_fold_est that writes at the held-out index as it is)
predict_fold_est_unshifted(d) ==
    LET sl == SliceX(X, d.tei)
        xt == TransformAll(sl.x, d.tr_list, d.case, "tr_call")
        pe == _predict_est(The(xt.val), d.est, TRUE, d.inst_name, d.case,
                           pred_method, "est_call")
        p == The(pe.val)
        rebase == 0
        tei == [m \in DOMAIN The(sl.idx) |-> The(sl.idx)[m] - rebase]
    IN IF xt.err # "" THEN Abort(xt.err, {})
       ELSE IF pe.err # "" THEN Abort(pe.err, {})
       ELSE IF ~IsSome(sl.idx) THEN Abort("TypeError", {})
       ELSE MatrixWrite(p, tei, d.col, {}, Nothing)

\* predict_fold_est: slice X by the fold's held-out index, transform, predict
\* (failures coerced to errors), rebase the index, write
predict_fold_est_body(d) ==
    LET sl == SliceX(X, d.tei)
        xt == TransformAll(sl.x, d.tr_list, d.case, "tr_call")
        pe == _predict_est(The(xt.val), d.est, TRUE, d.inst_name, d.case,
                           pred_method, "est_call")
        p == The(pe.val)
        rebase == X - NRows
        tei == [m \in DOMAIN The(sl.idx) |-> The(sl.idx)[m] - rebase]
    IN IF xt.err # "" THEN Abort(xt.err, {})
       ELSE IF pe.err # "" THEN Abort(pe.err, {})
       ELSE IF ~IsSome(sl.idx) THEN Abort("TypeError", {})
       ELSE MatrixWrite(p, tei, d.col, {}, Nothing)

\* ------------------------------------------------------- parallel-for state
\* pc: where the task stands.  Locals of _load_trans: roe (its own
\* raise_on_exception), clk (time_() - ts).  History kept for the properties:
\* nwarn counts its warnings, waited is the time slept since the wait began,
\* pub is what waited was when the key was published.
NewTask == [pc |-> "pending", roe |-> FALSE, clk |-> 0, nwarn |-> 0,
            waited |-> 0, pub |-> Nothing,
            tr_list |-> <<>>, payload |-> Nothing, err |-> ""]
Pending(ts) == [i \in DOMAIN ts |-> NewTask]

InCall == phase \in {"fit_trans", "fit_est", "fit_all", "predict", "transform"}
Running(i) == tst[i].pc \notin {"pending", "done", "raised"}
WorkerFree == Cardinality({i \in DOMAIN wave : Running(i)}) < NJobs
\* The parallel-for call takes its tasks from the generator in order and starts
\* the next one when one of its n_jobs workers is free.
CanStart(i) == WorkerFree /\ \A j \in 1..(i - 1) : tst[j].pc # "pending"
Tag(d, warns) == {<<w, d.case, d.inst_name>> : w \in warns}

\* A task's body has run with outcome o: its warnings and its write land, and
\* the task goes on to save (or, with nothing to save, ends) unless it raised.
Land(i, o) ==
    /\ warned' = warned \cup Tag(wave[i], o.warns)
    /\ P' = SetCells(P, o.write.rows, o.write.src, o.write.cols,
                     [v |-> o.write.v, tr |-> o.write.tr])
    /\ wr' = NoteCells(wr, o.write.rows, o.write.cols, i)
    /\ tst' = [tst EXCEPT ![i].pc = IF o.err # "" THEN "raised"
                                    ELSE IF IsSome(o.payload) THEN "save" ELSE "done",
                          ![i].err = o.err,
                          ![i].payload = o.payload]

\* --------------------------------------------------------- fit_trans task
fit_trans(i) ==
    /\ InCall /\ FnOf(wave[i]) = "fit_trans"
    /\ tst[i].pc = "pending" /\ CanStart(i)
    /\ Land(i, IF BindError(wave[i]) # "" THEN Abort(BindError(wave[i]), {})
                ELSE fit_trans_body(wave[i]))
    /\ UNCHANGED <<op, X, layer, engine, fault, cache, phase, err, wave>>

fit_trans_save(i) ==
    /\ InCall /\ FnOf(wave[i]) = "fit_trans"
    /\ tst[i].pc = "save"
    /\ cache' = pickle_save(The(tst[i].payload), KeyT(wave[i].case))
    /\ tst' = [tst EXCEPT ![i].pc = "done"]
    /\ UNCHANGED <<op, X, layer, engine, fault, P, wr, phase, err, warned, wave>>

\* ------------------------------------------------------------- Wait Protocol
\* (variant: the except block never raises)
_load_trans_try_poll(key, raise_on_exception) ==
    IF exists(key) THEN "return" ELSE "poll"

\* _load_trans, the try block: the load succeeds, or the except block raises
\* at once, or it starts polling
_load_trans_try(key, raise_on_exception) ==
    IF exists(key) THEN "return"
    ELSE IF raise_on_exception THEN "raise" ELSE "poll"

\* while not os.path.exists(dir)
_load_trans_while(key) == IF exists(key) THEN "load" ELSE "sleep"

\* (variant: the first timeout raises whatever raise_on_exception is)
_load_trans_timeout_strict(clk, raise_on_exception) ==
    IF clk > Lim THEN "raise" ELSE "loop"

\* (variant: the timeout compares against 0 instead of lim)
_load_trans_timeout_early(clk, raise_on_exception) ==
    IF clk > 0 THEN (IF raise_on_exception THEN "raise" ELSE "warn") ELSE "loop"

\* if time_() - ts > lim: raise, or warn and go on with raise_on_exception set
_load_trans_timeout(clk, raise_on_exception) ==
    IF clk > Lim THEN (IF raise_on_exception THEN "raise" ELSE "warn") ELSE "loop"

\* fit_est from its start to the end of _load_trans' try block
fit_est(i) ==
    LET d == wave[i]
        key == KeyT(d.case)
        to == IF BindError(d) # "" THEN "bind"
              ELSE IF preprocess
              THEN _load_trans_try(key, layer.raise_on_exception) ELSE "skip"
    IN /\ InCall /\ FnOf(d) = "fit_est"
       /\ tst[i].pc = "pending" /\ CanStart(i)
       /\ tst' = [tst EXCEPT
                    ![i].pc = IF to \in {"raise", "bind"} THEN "raised"
                              ELSE IF to = "poll" THEN "poll" ELSE "run",
                    ![i].err = IF to = "bind" THEN BindError(d)
                               ELSE IF to = "raise" THEN "ParallelProcessingError" ELSE "",
                    ![i].roe = layer.raise_on_exception,
                    ![i].tr_list = IF to = "return" THEN pickle_load(key) ELSE <<>>]
       /\ UNCHANGED <<op, X, layer, engine, fault, cache, P, wr, phase, err, warned, wave>>

_load_trans_poll(i) ==
    /\ InCall /\ tst[i].pc = "poll"
    /\ tst' = [tst EXCEPT ![i].pc = _load_trans_while(KeyT(wave[i].case))]
    /\ UNCHANGED <<op, X, layer, engine, fault, cache, P, wr, phase, err, warned, wave>>

\* sleep(s): at least s, at most Jitter more
_load_trans_sleep(i) ==
    /\ InCall /\ tst[i].pc = "sleep"
    /\ \E dt \in Ival..(Ival + Jitter) :
          tst' = [tst EXCEPT ![i].pc = "timeout", ![i].clk = @ + dt,
                             ![i].waited = @ + dt]
    /\ UNCHANGED <<op, X, layer, engine, fault, cache, P, wr, phase, err, warned, wave>>

_load_trans_check(i) ==
    LET to == _load_trans_timeout(tst[i].clk, tst[i].roe)
    IN /\ InCall /\ tst[i].pc = "timeout"
       /\ tst' = [tst EXCEPT
                    ![i].pc = IF to = "raise" THEN "raised" ELSE "poll",
                    ![i].err = IF to = "raise" THEN "ParallelProcessingError" ELSE "",
                    ![i].roe = IF to = "warn" THEN TRUE ELSE @,
                    ![i].clk = IF to = "warn" THEN 0 ELSE @,
                    ![i].nwarn = IF to = "warn" THEN @ + 1 ELSE @]
       /\ warned' = IF to = "warn"
                    THEN warned \cup Tag(wave[i], {"ParallelProcessingWarning"})
                    ELSE warned
       /\ UNCHANGED <<op, X, layer, engine, fault, cache, P, wr, phase, err, wave>>

\* return pickle_load(dir), after the loop
_load_trans_load(i) ==
    /\ InCall /\ tst[i].pc = "load"
    /\ tst' = [tst EXCEPT ![i].pc = "run",
                          ![i].tr_list = pickle_load(KeyT(wave[i].case))]
    /\ UNCHANGED <<op, X, layer, engine, fault, cache, P, wr, phase, err, warned, wave>>

\* ------------------------------------------------------------ fit_est task
fit_est_run(i) ==
    /\ InCall /\ FnOf(wave[i]) = "fit_est"
    /\ tst[i].pc = "run"
    /\ Land(i, fit_est_body(wave[i], tst[i].tr_list))
    /\ UNCHANGED <<op, X, layer, engine, fault, cache, phase, err, wave>>

\* (variant: the entry is written when the task starts its work, before the
\* estimator is fitted)
fit_est_save_first(i) ==
    /\ InCall /\ FnOf(wave[i]) = "fit_est"
    /\ tst[i].pc = "run"
    /\ ~exists(KeyE(wave[i].case, wave[i].inst_name))
    /\ cache' = pickle_save([inst_name |-> wave[i].inst_name, est |-> Nothing,
                             idx |-> <<wave[i].tei, wave[i].col>>, s |-> Nothing],
                            KeyE(wave[i].case, wave[i].inst_name))
    /\ UNCHANGED <<op, X, layer, engine, fault, P, wr, phase, err, warned, wave, tst>>

\* fit_est, its last statement: pickle_save((inst_name, est, idx, s), f)
fit_est_save(i) ==
    /\ InCall /\ FnOf(wave[i]) = "fit_est"
    /\ tst[i].pc = "save"
    /\ cache' = pickle_save(The(tst[i].payload), KeyE(wave[i].case, wave[i].inst_name))
    /\ tst' = [tst EXCEPT ![i].pc = "done"]
    /\ UNCHANGED <<op, X, layer, engine, fault, P, wr, phase, err, warned, wave>>

\* --------------------------------------------------- predict / transform tasks
predict_est(i) ==
    /\ InCall /\ FnOf(wave[i]) = "predict_est"
    /\ tst[i].pc = "pending" /\ CanStart(i)
    /\ Land(i, IF BindError(wave[i]) # "" THEN Abort(BindError(wave[i]), {})
                ELSE predict_est_body(wave[i]))
    /\ UNCHANGED <<op, X, layer, engine, fault, cache, phase, err, wave>>

predict_fold_est(i) ==
    /\ InCall /\ FnOf(wave[i]) = "predict_fold_est"
    /\ tst[i].pc = "pending" /\ CanStart(i)
    /\ Land(i, IF BindError(wave[i]) # "" THEN Abort(BindError(wave[i]), {})
                ELSE predict_fold_est_body(wave[i]))
    /\ UNCHANGED <<op, X, layer, engine, fault, cache, phase, err, wave>>

\* ------------------------------------------------------------------ engine
\* _wrap(folded_list): each transformer list as one estimator named '__trans__'
_wrap(folded_list) ==
    [m \in DOMAIN folded_list |->
        [case |-> folded_list[m].case, tri |-> folded_list[m].tri, tei |-> IdxNone,
         inst |-> << [name |-> TransName, obj |-> folded_list[m].inst] >>]]

\* the instance lists of self.e, in the shape _wrap gives: (name, object) pairs
Named(elist) ==
    [m \in DOMAIN elist |->
        [case |-> elist[m].case, tri |-> elist[m].tri, tei |-> elist[m].tei,
         inst |-> [k \in DOMAIN elist[m].inst |->
                      [name |-> elist[m].inst[k], obj |-> <<>>]]]]

\* delayed(fn)(...) for case, tri, tei, inst_list in lst for inst_name, instance in inst_list
Delayed(fn, lst) ==
    Flatten([m \in DOMAIN lst |->
        [k \in DOMAIN lst[m].inst |->
            Task(fn, lst[m].case, lst[m].inst[k].name, lst[m].inst[k].obj,
                 lst[m].tri, lst[m].tei,
                 IF lst[m].inst[k].name = TransName THEN 0
                 ELSE ColOf(lst[m].case, lst[m].inst[k].name),
                 <<>>, Nothing)]])

\* delayed(fit_trans)(...) for case, tri, _, instance_list in self.t
DelayedTrans(tl) ==
    [m \in DOMAIN tl |->
        Task("fit_trans", tl[m].case, <<>>, tl[m].inst, tl[m].tri, IdxNone, 0,
             <<>>, Nothing)]

\* The tasks of fit's first parallel call.
FitWave ==
    IF engine.dual
    THEN IF preprocess THEN DelayedTrans(The(engine.t))
         ELSE Delayed("fit_est", Named(engine.e))
    ELSE Delayed("_fit", (IF preprocess THEN _wrap(The(engine.t)) ELSE <<>>)
                         \o Named(engine.e))

\* _assemble(dir, instance_list, suffix)
AssembleKeys ==
    (IF preprocess THEN {KeyT(The(engine.t)[m].case) : m \in DOMAIN The(engine.t)} ELSE {})
    \cup UNION {{KeyE(engine.e[m].case, engine.e[m].inst[k]) :
                     k \in DOMAIN engine.e[m].inst} : m \in DOMAIN engine.e}
_assemble_t ==
    IF ~preprocess THEN Nothing
    ELSE Some([m \in DOMAIN The(engine.t) |->
                 [case |-> The(engine.t)[m].case,
                  tr_list |-> pickle_load(KeyT(The(engine.t)[m].case))]])
_assemble_e ==
    Flatten([m \in DOMAIN engine.e |->
        [k \in DOMAIN engine.e[m].inst |->
            LET loaded == pickle_load(KeyE(engine.e[m].case, engine.e[m].inst[k]))
            IN [case |-> engine.e[m].case, inst_name |-> loaded.inst_name,
                est |-> loaded.est, idx |-> loaded.idx]]])

\* ------------------------------------------------------- Score Aggregator
\* A Python string is the sequence of its characters.
Sep2 == <<"_", "_">>
Sep3 == <<"_", "_", "_">>
Chr(n) == << <<"0", "1", "2", "3", "4", "5", "6", "7", "8", "9">>[n + 1] >>
\* the positions at which s.split(sep) cuts s, scanning from position i on:
\* the occurrences of sep from the left, none overlapping the one before
RECURSIVE cuts(_, _, _)
cuts(s, sep, i) ==
    IF i + Len(sep) - 1 > Len(s) THEN <<>>
    ELSE IF SubSeq(s, i, i + Len(sep) - 1) = sep THEN <<i>> \o cuts(s, sep, i + Len(sep))
    ELSE cuts(s, sep, i + 1)
\* sep in s
contains(s, sep) == cuts(s, sep, 1) # <<>>
\* s.split(sep)
split(s, sep) ==
    LET c == cuts(s, sep, 1)
    IN [j \in 1..(Len(c) + 1) |->
           SubSeq(s, IF j = 1 THEN 1 ELSE c[j - 1] + Len(sep),
                     IF j > Len(c) THEN Len(s) ELSE c[j] - 1)]
\* sep.join(parts)
RECURSIVE join(_, _)
join(sep, parts) ==
    IF parts = <<>> THEN <<>>
    ELSE IF Len(parts) = 1 THEN parts[1]
    ELSE parts[1] \o sep \o join(sep, Tail(parts))
\* the string of a name of the task lists: its parts joined with '__'
Str(name) == join(Sep2, [i \in DOMAIN name |-> Chr(name[i])])

\* np.mean(v), np.std(v) of a list of numbers: the mean as the fraction
\* sum / n and the variance as (n * sum of squares - sum^2) / n^2 (nan for [])
RECURSIVE SumOf(_)
SumOf(v) == IF v = <<>> THEN 0 ELSE Head(v) + SumOf(Tail(v))
MeanStd(v) ==
    LET n == Len(v)
        nums == [i \in DOMAIN v |-> The(v[i])]
        sq == [i \in DOMAIN v |-> The(v[i]) * The(v[i])]
    IN [mean |-> <<SumOf(nums), n>>,
        var |-> <<n * SumOf(sq) - SumOf(nums) * SumOf(nums), n * n>>]
\* a list np.mean cannot reduce: one holding a None
HasNone(v) == \E i \in DOMAIN v : ~IsSome(v[i])

\* (variant: a failed reduction only warns)
_mean_score_warn(v, raise_) ==
    IF HasNone(v) THEN [val |-> Nothing, err |-> "", warn |-> TRUE]
    ELSE [val |-> Some(MeanStd(v)), err |-> "", warn |-> FALSE]
\* _mean_score(v, raise_, name, lyr): the value returned (None after the
\* warning), the exception raised, whether it warned
_mean_score(v, raise_) ==
    IF HasNone(v)
    THEN IF raise_ THEN [val |-> Nothing, err |-> "ParallelProcessingError", warn |-> FALSE]
         ELSE [val |-> Nothing, err |-> "", warn |-> TRUE]
    ELSE [val |-> Some(MeanStd(v)), err |-> "", warn |-> FALSE]

\* the name of a root entry's key
RootName(k) ==
    LET p == split(k, Sep3)
    IN IF p[1] = <<>> THEN p[2] ELSE p[1] \o Sep2 \o p[2]
\* the name of a fold entry's key
FoldName(k) ==
    LET p == split(k, Sep3)
        e == split(p[2], Sep2)
        est_name == join(Sep2, PySlice(e, 0, Len(e) - 1))
    IN IF ~contains(p[1], Sep2) THEN est_name
       ELSE split(p[1], Sep2)[1] \o Sep2 \o est_name

\* k.split('___') does not give the two parts the loops unpack
BadKey(k) == Len(split(k, Sep3)) # 2
\* for k, v in s[:n_pred]: scores[name] = []  -- the keys of the table
RootNames(roots) == {RootName(roots[i].k) : i \in {j \in DOMAIN roots : ~BadKey(roots[j].k)}}
\* for k, v in s[n_pred:]: scores[name].append(v)  -- the list under a name
\* once the loop is through, and the fold entries on which the loop raises
FoldList(folds, name) ==
    LET sel == SelectSeq(folds, LAMBDA p : ~BadKey(p.k) /\ FoldName(p.k) = name)
    IN [i \in DOMAIN sel |-> sel[i].v]
FoldErrors(folds, names) ==
    {i \in DOMAIN folds : BadKey(folds[i].k) \/ FoldName(folds[i].k) \notin names}

\* _build_scores(s) with the layer's n_pred and the engine's raise_: the
\* exception it raises or the table it returns, the lists before their
\* reduction, and the keys it warned about
_build_scores(s, n_pred, raise_) ==
    LET roots == PySlice(s, 0, n_pred)
        folds == PySlice(s, n_pred, Len(s))
        names == RootNames(roots)
        bad == FoldErrors(folds, names)
        first == CHOOSE i \in bad : \A j \in bad : i <= j
        lists == [k \in names |-> FoldList(folds, k)]
        red == [k \in names |-> _mean_score(lists[k], raise_)]
        e == IF \E i \in DOMAIN roots : BadKey(roots[i].k) THEN "ValueError"
             ELSE IF bad # {} THEN (IF BadKey(folds[first].k) THEN "ValueError" ELSE "KeyError")
             ELSE IF \E k \in names : red[k].err # "" THEN "ParallelProcessingError"
             ELSE ""
    IN [err |-> e,
        lists |-> lists,
        scores |-> [k \in names |-> red[k].val],
        warned |-> {k \in names : red[k].warn}]

\* the (key, score) pairs _assemble hands back: case + '___' + name, loaded[-1]
ScoreKey(case, name) == (IF IsSome(case) THEN The(case) ELSE <<>>) \o Sep3 \o name
_assemble_s ==
    Flatten([m \in DOMAIN engine.e |->
        [k \in DOMAIN engine.e[m].inst |->
            [k |-> ScoreKey(Some(Str(engine.e[m].case)), Str(engine.e[m].inst[k])),
             v |-> pickle_load(KeyE(engine.e[m].case, engine.e[m].inst[k])).s]]])

\* fit(X, y, P, dir, parallel), up to its first parallel call
fit ==
    /\ phase = "new"
    /\ op' = "fit"
    /\ wave' = FitWave
    /\ tst' = Pending(FitWave)
    /\ phase' = IF ~engine.dual THEN "fit_all"
                ELSE IF preprocess THEN "fit_trans" ELSE "fit_est"
    /\ UNCHANGED <<X, layer, engine, fault, cache, P, wr, err, warned>>

\* (variant: the first parallel call hands back control on its first finished task)
AnyDone == \E i \in DOMAIN wave : tst[i].pc = "done"
\* parallel(...) returns when every task it was given is done
AllDone == \A i \in DOMAIN wave : tst[i].pc = "done"

\* dual mode: the first parallel call has returned, the second one starts
fit_second ==
    /\ phase = "fit_trans" /\ AllDone
    /\ wave' = Delayed("fit_est", Named(engine.e))
    /\ tst' = Pending(Delayed("fit_est", Named(engine.e)))
    /\ phase' = "fit_est"
    /\ UNCHANGED <<op, X, layer, engine, fault, cache, P, wr, err, warned>>

\* the last parallel call of fit has returned: self._assemble(dir), which
\* builds the score table when the layer has a scorer (the layers here have
\* folds, so layer.cls is not 'full')
fit_assemble ==
    /\ phase \in {"fit_est", "fit_all"} /\ AllDone
    /\ IF ~(AssembleKeys \subseteq DOMAIN cache)
       THEN /\ layer' = layer
            /\ phase' = "raised"
            /\ err' = "FileNotFoundError"
            /\ warned' = warned
       ELSE LET b == _build_scores(_assemble_s, layer.n_pred, layer.raise_on_exception)
                assembled == [layer EXCEPT !.preprocessing_ = _assemble_t,
                                           !.estimators_ = [kind |-> "list",
                                                            list |-> _assemble_e,
                                                            dict |-> <<>>]]
            IN IF ~layer.scorer
               THEN /\ layer' = assembled
                    /\ phase' = "fitted" /\ err' = "" /\ warned' = warned
               ELSE IF b.err # ""
               THEN /\ layer' = assembled
                    /\ phase' = "raised" /\ err' = b.err /\ warned' = warned
               ELSE /\ layer' = [assembled EXCEPT !.scores_ = Some(b.scores)]
                    /\ phase' = "fitted" /\ err' = ""
                    /\ warned' = warned \cup {<<"ParallelProcessingWarning", <<>>, k>> :
                                                 k \in b.warned}
    /\ UNCHANGED <<op, X, engine, fault, cache, P, wr, wave, tst>>

\* the parallel call surfaces an exception of one of its tasks
parallel_raise ==
    /\ InCall
    /\ \E i \in DOMAIN wave :
          /\ tst[i].pc = "raised"
          /\ err' = tst[i].err
    /\ phase' = "raised"
    /\ UNCHANGED <<op, X, layer, engine, fault, cache, P, wr, warned, wave, tst>>

\* (variant: only the missing attribute counts as not fitted)
_check_fitted_attr_only(estimators_) ==
    IF estimators_.kind = "unset" THEN "NotFittedError" ELSE ""

\* _check_fitted: the exception it raises ("" = none).  check_is_fitted raises
\* when the layer has no estimators_ attribute.
_check_fitted(estimators_) ==
    LET empty == IF estimators_.kind = "list" THEN Len(estimators_.list) = 0
                 ELSE \E k \in DOMAIN estimators_.dict : Len(estimators_.dict[k]) = 0
    IN IF estimators_.kind = "unset" THEN "NotFittedError"
       ELSE IF estimators_.kind \notin {"list", "dict"} THEN ""
       ELSE IF empty THEN "NotFittedError" ELSE ""

\* _retrieve(s): the estimators and the preprocessing pipelines fitted on the
\* full data (s = 'full') or on the folds (s = 'fold')
\* _retrieve without the n_pred split for the estimators
_retrieve_unsplit(s) ==
    LET n_prep == IF layer.n_prep > 1 THEN layer.n_prep ELSE 1
        prep == The(layer.preprocessing_)
    IN [ests |-> layer.estimators_.list,
        prep |-> IF ~IsSome(layer.preprocessing_) THEN Nothing
                 ELSE Some(IF s = "full" THEN PySlice(prep, 0, n_prep)
                           ELSE PySlice(prep, n_prep, Len(prep)))]

_retrieve(s) ==
    LET n_pred == layer.n_pred
        n_prep == IF layer.n_prep > 1 THEN layer.n_prep ELSE 1
        ests == layer.estimators_.list
        prep == The(layer.preprocessing_)
    IN [ests |-> IF s = "full" THEN PySlice(ests, 0, n_pred)
                 ELSE PySlice(ests, n_pred, Len(ests)),
        prep |-> IF ~IsSome(layer.preprocessing_) THEN Nothing
                 ELSE Some(IF s = "full" THEN PySlice(prep, 0, n_prep)
                           ELSE PySlice(prep, n_prep, Len(prep)))]

\* prep[case] if prep is not None else []  (optional: a missing case is a KeyError)
PrepOf(prep, case) ==
    IF ~IsSome(prep) THEN Some(<<>>)
    ELSE IF \E m \in DOMAIN The(prep) : The(prep)[m].case = case
         THEN Some(The(prep)[CHOOSE m \in DOMAIN The(prep) :
                                /\ The(prep)[m].case = case
                                /\ \A n \in DOMAIN The(prep) :
                                      The(prep)[n].case = case => n <= m].tr_list)
         ELSE Nothing

\* The tasks of predict (fn = predict_est, s = 'full') or transform
\* (fn = predict_fold_est, s = 'fold')
CallWave(fn, s) ==
    LET r == _retrieve(s)
    IN [m \in DOMAIN r.ests |->
          Task(fn, r.ests[m].case, r.ests[m].inst_name, <<>>, IdxNone,
               r.ests[m].idx[1], r.ests[m].idx[2],
               The(PrepOf(r.prep, r.ests[m].case)), r.ests[m].est)]

\* What a public call does before its tasks run: the exception it raises, or ""
CallError(s) ==
    LET c == _check_fitted(layer.estimators_)
        r == _retrieve(s)
    IN IF c # "" THEN c
       ELSE IF layer.estimators_.kind # "list" THEN "TypeError"
       ELSE IF \E m \in DOMAIN r.ests : ~IsSome(PrepOf(r.prep, r.ests[m].case))
            THEN "KeyError"
       ELSE ""

\* predict(X, P, parallel) / transform(X, P, parallel) on a fresh matrix P;
\* transform is given the X of fit, predict that X or one with the rows of P
Call(name, fn, s) ==
    /\ phase = "fitted"
    /\ op' = name
    /\ X' \in (IF name = "predict" THEN {X, NRows} ELSE {X})
    /\ P' = Zeros /\ wr' = NoWrites
    /\ err' = CallError(s)
    /\ IF CallError(s) # ""
       THEN /\ phase' = "raised"
            /\ wave' = <<>> /\ tst' = <<>>
       ELSE /\ phase' = name
            /\ wave' = CallWave(fn, s)
            /\ tst' = Pending(CallWave(fn, s))
    /\ UNCHANGED <<layer, engine, fault, cache, warned>>

predict == Call("predict", "predict_est", "full")
transform == Call("transform", "predict_fold_est", "fold")

\* the parallel call of predict or transform has returned
call_return ==
    /\ phase \in {"predict", "transform"} /\ AllDone
    /\ phase' = "returned"
    /\ UNCHANGED <<op, X, layer, engine, fault, cache, P, wr, err, warned, wave, tst>>

\* -------------------------------------------------------------------- runs
\* The failing calls a run may have: at most one, of a call the run can make.
StepFaults(k, js, n) ==
    {[k |-> k, case |-> CaseOf(j), name |-> <<st>>] : j \in js, st \in 1..n}
EstFaults(k, js) ==
    {[k |-> k, case |-> CaseOf(j), name |-> InstName(i, j)] : j \in js, i \in 1..NEst}
Faults(t) ==
    LET n == Len(The(t)[1].inst)
    IN {NoFault}
       \cup EstFaults("est_fit", 0..NFolds) \cup EstFaults("est_predict", 1..NFolds)
       \cup EstFaults("est_call", 0..NFolds)
       \cup (IF ~IsSome(t) THEN {}
             ELSE StepFaults("tr_fit", 0..NFolds, n)
                  \cup (IF n > 1 THEN StepFaults("tr_chain", 0..NFolds, n) ELSE {})
                  \cup StepFaults("tr_train", 0..NFolds, n)
                  \cup StepFaults("tr_test", 1..NFolds, n)
                  \cup StepFaults("tr_call", 0..NFolds, n))

Unset == [kind |-> "unset", list |-> <<>>, dict |-> <<>>]
NewLayer(roe, t) ==
    [raise_on_exception |-> roe, proba |-> FALSE, scorer |-> TRUE,
     n_pred |-> NEst, n_prep |-> IF IsSome(t) THEN 1 ELSE 0,
     estimators_ |-> Unset, preprocessing_ |-> Nothing, scores_ |-> Nothing]

\* estimators_ as the layer's owner may have stored it rather than fit: a
\* dict of lists, or something that is neither a list nor a dict.
StoredShapes ==
    {[kind |-> "dict", list |-> <<>>, dict |-> dd] :
        dd \in {<<>>, << <<>> >>, << <<1>> >>, << <<1>>, <<>> >>, << <<1>>, <<1, 1>> >>}}
    \cup {[kind |-> "other", list |-> <<>>, dict |-> <<>>], Unset}

Quiet ==
    /\ err = ""
    /\ cache = <<>>
    /\ P = Zeros /\ wr = NoWrites
    /\ warned = {}
    /\ wave = <<>> /\ tst = <<>>

\* A layer and its engine as constructed, before fit.
\* X has the rows of P or Shift more; the estimators predict one column with
\* columns one apart, or NClasses columns with columns NClasses or one apart.
ColumnMaps == {<<FALSE, 1>>, <<TRUE, NClasses>>, <<TRUE, 1>>}
InitNew ==
    /\ op = "" /\ phase = "new"
    /\ X \in {NRows, NRows + Shift}
    /\ \E roe \in BOOLEAN, dual \in BOOLEAN, cm \in ColumnMaps,
          t \in {Nothing} \cup {Some(TList(n)) : n \in 1..NSteps} :
          /\ layer = [NewLayer(roe, t) EXCEPT !.proba = cm[1]]
          /\ engine = [dual |-> dual, t |-> t, e |-> EList, c |-> cm[2]]
          /\ fault \in Faults(t)
    /\ Quiet

\* A layer without estimators, before fit.
InitBare ==
    /\ op = "" /\ phase = "new"
    /\ X = NRows
    /\ \E roe \in BOOLEAN, dual \in BOOLEAN :
          /\ layer = NewLayer(roe, Nothing)
          /\ engine = [dual |-> dual, t |-> Nothing, e |-> <<>>, c |-> 1]
    /\ fault = NoFault
    /\ Quiet

\* A layer whose estimators_ its owner stored, before predict or transform.
InitStored ==
    /\ op = "" /\ phase = "fitted"
    /\ X = NRows
    /\ \E roe \in BOOLEAN, shape \in StoredShapes :
          layer = [NewLayer(roe, Nothing) EXCEPT !.estimators_ = shape]
    /\ engine = [dual |-> TRUE, t |-> Nothing, e |-> <<>>, c |-> 1]
    /\ fault = NoFault
    /\ Quiet

Init == InitNew \/ InitBare \/ InitStored

\* The loop of _load_trans is not among these steps: in a fit driven by the
\* engine no task gets past the try block of _load_trans (dual mode: the list
\* is there; combined mode: fit_est fails to bind), see SpecWait for the loop.
Next ==
    \/ fit
    \/ fit_second
    \/ fit_assemble
    \/ parallel_raise
    \/ predict
    \/ transform
    \/ call_return
    \/ \E i \in DOMAIN wave : fit_trans(i)
    \/ \E i \in DOMAIN wave : fit_trans_save(i)
    \/ \E i \in DOMAIN wave : fit_est(i)
    \/ \E i \in DOMAIN wave : fit_est_run(i)
    \/ \E i \in DOMAIN wave : fit_est_save(i)
    \/ \E i \in DOMAIN wave : predict_est(i)
    \/ \E i \in DOMAIN wave : predict_fold_est(i)

Spec == Init /\ [][Next]_vars

\* ------------------------------------------------------- the wait on its own
\* fit_est called for one estimator of a layer with preprocessing, on a cache
\* directory that does not hold the transformer lists yet; each list is put
\* there at some moment, or never, by whoever fits it.

WaitInit ==
    /\ op = "fit" /\ phase = "fit_est"
    /\ X = NRows
    /\ \E roe \in BOOLEAN, n \in 1..NSteps :
          /\ layer = NewLayer(roe, Some(TList(n)))
          /\ engine = [dual |-> TRUE, t |-> Some(TList(n)), e |-> EList, c |-> 1]
    /\ fault = NoFault
    /\ err = "" /\ cache = <<>>
    /\ P = Zeros /\ wr = NoWrites /\ warned = {}
    /\ \E d \in Range(Delayed("fit_est", Named(engine.e))) : wave = <<d>>
    /\ tst = Pending(wave)

\* fit_trans for the m-th case runs and saves outside this call; the tasks of
\* that case note how long they had waited by then
publish(m) ==
    LET d == DelayedTrans(The(engine.t))[m]
    IN /\ InCall /\ ~exists(KeyT(d.case))
       /\ cache' = pickle_save(The(fit_trans_body(d).payload), KeyT(d.case))
       /\ tst' = [j \in DOMAIN tst |->
                    IF wave[j].case = d.case
                    THEN [tst[j] EXCEPT !.pub = Some(tst[j].waited)]
                    ELSE tst[j]]
       /\ UNCHANGED <<op, X, layer, engine, fault, P, wr, phase, err, warned, wave>>

WaitNext ==
    \/ \E m \in DOMAIN The(engine.t) : publish(m)
    \/ \E i \in DOMAIN wave : fit_est(i)
    \/ \E i \in DOMAIN wave : _load_trans_poll(i)
    \/ \E i \in DOMAIN wave : _load_trans_sleep(i)
    \/ \E i \in DOMAIN wave : _load_trans_check(i)
    \/ \E i \in DOMAIN wave : _load_trans_load(i)
    \/ \E i \in DOMAIN wave : fit_est_run(i)
    \/ \E i \in DOMAIN wave : fit_est_save(i)

SpecWait == WaitInit /\ [][WaitNext]_vars

\* a task inside _load_trans keeps running: its loop test, its sleep, its
\* timeout check and its load each happen when they are due
WaitStep(i) ==
    /\ i \in DOMAIN wave
    /\ \/ _load_trans_poll(i)
       \/ _load_trans_sleep(i)
       \/ _load_trans_check(i)
       \/ _load_trans_load(i)

SpecWaitFair == SpecWait /\ WF_vars(WaitStep(1))

\* =================================================================== claims
\* What a case's pickled transformer list must be: every step of the case, in
\* order, step k fitted on the case's training rows as transformed by the
\* steps before it.
CaseEntry(case) ==
    The(engine.t)[CHOOSE m \in DOMAIN The(engine.t) : The(engine.t)[m].case = case]
TrainRows(idx) ==
    IF idx.kind = "none" THEN [r \in 1..X |-> r - 1]
    ELSE Flatten([m \in DOMAIN idx.rs |->
                    [r \in 1..(idx.rs[m][2] - idx.rs[m][1]) |-> idx.rs[m][1] + r - 1]])
FullPipeline(case) ==
    [k \in DOMAIN CaseEntry(case).inst |->
        [name |-> CaseEntry(case).inst[k],
         rows |-> TrainRows(CaseEntry(case).tri),
         pre |-> SubSeq(CaseEntry(case).inst, 1, k - 1)]]

EstTasks == {i \in DOMAIN wave : FnOf(wave[i]) = "fit_est"}
InLoadTrans(i) == tst[i].pc \in {"poll", "sleep", "timeout", "load"}
WaitFailed(i) == tst[i].pc = "raised" /\ tst[i].err = "ParallelProcessingError"
HasList(i) == tst[i].pc \in {"run", "save", "done"}
\* the estimator task i fitted, if it has fitted one
FittedBy(i) == IF IsSome(tst[i].payload) THEN The(tst[i].payload).est ELSE Nothing

\* C1: in a dual-mode fit with preprocessing, an estimator task never waits
\* for or misses its transformer list; when it has got the list it got it from
\* an existing cache entry of its case, the list is the case's complete
\* pipeline in order, and every estimator fitted was fitted on data that went
\* through that whole pipeline.
C1_DualFitReadsCompletePipeline ==
    (op = "fit" /\ engine.dual /\ preprocess) =>
        \A i \in EstTasks :
            /\ ~InLoadTrans(i) /\ ~WaitFailed(i)
            /\ HasList(i) =>
                  /\ exists(KeyT(wave[i].case))
                  /\ pickle_load(KeyT(wave[i].case)) = FullPipeline(wave[i].case)
                  /\ tst[i].tr_list = FullPipeline(wave[i].case)
            /\ IsSome(FittedBy(i)) =>
                  /\ The(FittedBy(i)).tr = FullPipeline(wave[i].case)
                  /\ The(FittedBy(i)).rows = TrainRows(wave[i].tri)

\* a per-fold estimator of a two-step case has been fitted and is about to be saved
C1_Witness ==
    /\ op = "fit" /\ engine.dual /\ preprocess
    /\ \E i \in EstTasks :
          /\ tst[i].pc = "save" /\ wave[i].tei.kind # "none"
          /\ IsSome(FittedBy(i)) /\ Len(The(FittedBy(i)).tr) = 2

Combined == op = "fit" /\ ~engine.dual /\ preprocess

\* C2 as stated: in a combined-mode fit with preprocessing the transformer list of a case is
\* fitted before its estimators in their own task, so (when no learner fails)
\* an estimator task never polls in _load_trans and has nothing to fail on.
C2_Claim ==
    (Combined /\ fault = NoFault) =>
        \A i \in EstTasks :
            /\ ~InLoadTrans(i)
            /\ tst[i].pc # "raised"

\* task i is an estimator task that has entered fit_est
Began(i) == i \in EstTasks /\ tst[i].pc # "pending"
\* the artifact of task i's case appeared when the task had waited less than lim
AppearedInTime(i) == IsSome(tst[i].pub) /\ The(tst[i].pub) < Lim
Returned(i) == tst[i].pc \in {"run", "save", "done"}
WarnedWait(i) ==
    <<"ParallelProcessingWarning", wave[i].case, wave[i].inst_name>> \in warned

C5_Bounded(i) ==
    /\ tst[i].nwarn <= 1
    /\ tst[i].nwarn = 1 <=> WarnedWait(i)
    /\ tst[i].nwarn = 1 =>
          /\ tst[i].roe
          /\ tst[i].waited > Lim
          /\ tst[i].clk <= tst[i].waited - (Lim + 1)
    /\ (~layer.raise_on_exception /\ WaitFailed(i)) =>
          /\ tst[i].nwarn = 1
          /\ tst[i].clk > Lim
          /\ tst[i].waited > 2 * Lim
          /\ tst[i].waited <= 2 * (Lim + Ival + Jitter)
InWait(i) == i \in DOMAIN wave /\ tst[i].pc \in {"poll", "sleep", "timeout", "load"}

Wrote(i) == \E r \in Rows, c \in Cols : i \in wr[r][c]
\* the body of task i has run: it is past every wait and has ended or is about to save
RanBody(i) ==
    /\ tst[i].pc \in {"save", "done", "raised"}
    /\ ~WaitFailed(i) /\ BindError(wave[i]) = ""
\* the cache key task i saves under
KeyOf(i) ==
    IF FnOf(wave[i]) = "fit_trans" THEN KeyT(wave[i].case)
    ELSE KeyE(wave[i].case, wave[i].inst_name)
\* task i is the one that makes the run's failing transformer call
TrFaulty(i) ==
    /\ wave[i].case = fault.case
    /\ \/ FnOf(wave[i]) = "fit_trans" /\ fault.k \in {"tr_fit", "tr_chain"}
       \/ FnOf(wave[i]) = "fit_est" /\ fault.k \in {"tr_train", "tr_test"}
       \/ FnOf(wave[i]) \in {"predict_est", "predict_fold_est"} /\ fault.k = "tr_call"

\* C6: a task in which a transformer's fit or transform raises ends with
\* FitFailedError whatever raise_on_exception is; it has written no cell of the
\* matrix and saved no cache entry.
C6_TransformerFailureIsFatal ==
    \A i \in DOMAIN wave :
        (TrFaulty(i) /\ RanBody(i)) =>
            /\ tst[i].pc = "raised" /\ tst[i].err = "FitFailedError"
            /\ ~Wrote(i)
            /\ (op = "fit" => ~exists(KeyOf(i)))

\* without raise_on_exception, a per-fold fit_est has failed in the
\* preprocessing of its held-out rows
C6_Witness ==
    /\ ~layer.raise_on_exception /\ fault.k = "tr_test"
    /\ \E i \in EstTasks : TrFaulty(i) /\ tst[i].err = "FitFailedError"

\* the task that makes the run's failing estimator call of kind k
EstFaulty(i, k) ==
    fault.k = k /\ wave[i].case = fault.case /\ wave[i].inst_name = fault.name

\* C7 as stated (dual mode, where no task waits): without raise_on_exception,
\* when one estimator's fit raises, fit does not raise, and once it is done a
\* FitFailedWarning was emitted and estimators_ has no entry of that instance.
C7_Claim ==
    (op = "fit" /\ engine.dual /\ ~layer.raise_on_exception /\ fault.k = "est_fit") =>
        /\ phase # "raised"
        /\ \A i \in EstTasks : tst[i].pc # "raised"
        /\ phase = "fitted" =>
              /\ <<"FitFailedWarning", fault.case, fault.name>> \in warned
              /\ \A m \in DOMAIN layer.estimators_.list :
                    layer.estimators_.list[m].inst_name # fault.name

\* the held-out cells of task i: its test rows, its column(s)
HeldOut(i) == {x - (X - NRows) : x \in Range(SliceX(X, wave[i].tei).x.rows)}

\* C8 as stated: without raise_on_exception, when an estimator's predict raises
\* in a per-fold fit task, the task does not raise, a PredictFailedWarning is
\* emitted, and its held-out rows of its column are zero.
C8_Claim ==
    (op = "fit" /\ ~layer.raise_on_exception) =>
        \A i \in EstTasks :
            (EstFaulty(i, "est_predict") /\ RanBody(i)) =>
                /\ tst[i].pc # "raised"
                /\ <<"PredictFailedWarning", fault.case, fault.name>> \in warned
                /\ \A r \in HeldOut(i) : P[r][wave[i].col].v = 0

\* the estimator call of predict/transform task i raises
PredictFails(i) ==
    /\ FnOf(wave[i]) \in {"predict_est", "predict_fold_est"}
    /\ fault.k # "tr_call"
    /\ \/ ~IsSome(wave[i].est)
       \/ Fails("est_call", wave[i].case, wave[i].inst_name)

\* C9 as stated (for an estimator whose predict raises): in predict and
\* transform, a failing estimator call raises
\* PredictFailedError when raise_on_exception is set, and otherwise the task
\* ends with a PredictFailedWarning and no write.
C9_Original ==
    (op \in {"predict", "transform"} /\ fault.k = "est_call") =>
        \A i \in DOMAIN wave :
            (PredictFails(i) /\ tst[i].pc # "pending") =>
                IF layer.raise_on_exception
                THEN tst[i].pc = "raised" /\ tst[i].err = "PredictFailedError"
                ELSE tst[i].pc = "done" /\ ~Wrote(i)

\* C9: in predict and transform, a failing estimator call raises
\* PredictFailedError whatever raise_on_exception is; the task writes nothing,
\* and the call never returns normally once such a task has run.
C9_PublicPredictFailureIsFatal ==
    (op \in {"predict", "transform"}) =>
        \A i \in DOMAIN wave :
            (PredictFails(i) /\ tst[i].pc # "pending") =>
                /\ tst[i].pc = "raised" /\ tst[i].err = "PredictFailedError"
                /\ ~Wrote(i)
                /\ phase # "returned"

\* without raise_on_exception, a transform call was aborted by a failing
\* estimator call
C9_Witness ==
    /\ ~layer.raise_on_exception /\ op = "transform" /\ fault.k = "est_call"
    /\ phase = "raised" /\ err = "PredictFailedError"
    /\ \E i \in DOMAIN wave : PredictFails(i) /\ tst[i].pc = "raised"

\* the stored collection is empty: an empty list, or a dict with an empty entry
EmptyCollection ==
    \/ layer.estimators_.kind = "list" /\ layer.estimators_.list = <<>>
    \/ /\ layer.estimators_.kind = "dict"
       /\ \E k \in DOMAIN layer.estimators_.dict : layer.estimators_.dict[k] = <<>>

\* C10: predict or transform on a layer whose estimators_ is empty raises
\* NotFittedError before any task is dispatched, and writes nothing to P.
C10_EmptyCollectionNotFitted ==
    (op \in {"predict", "transform"} /\ EmptyCollection) =>
        /\ phase = "raised" /\ err = "NotFittedError"
        /\ wave = <<>>
        /\ P = Zeros /\ wr = NoWrites

\* predict was called after a fit that stored an empty list
C10_Witness ==
    /\ op = "predict" /\ layer.estimators_.kind = "list"
    /\ EmptyCollection /\ err = "NotFittedError"

\* the columns [col, col + width) a task is to write, and the rows of P: every
\* row for predict_est, the held-out rows shifted by rows(X) - rows(P) otherwise
TaskCols(d) == IF layer.proba THEN d.col..(d.col + NClasses - 1) ELSE {d.col}
TaskRows(d) ==
    IF FnOf(d) = "predict_est" THEN Rows
    ELSE IF FnOf(d) = "fit_trans" \/ d.tei.kind = "none" THEN {}
    ELSE {x - (X - NRows) : x \in Range(SliceX(X, d.tei).x.rows)}
Region(d) == TaskRows(d) \X TaskCols(d)
\* the fitted steps task d puts its input through: the list of its case in the
\* cache for a fit task, the list it was handed for a predict or transform task
ChainOf(d) ==
    IF FnOf(d) # "fit_est" THEN d.tr_list
    ELSE IF preprocess /\ exists(KeyT(d.case)) THEN pickle_load(KeyT(d.case)) ELSE <<>>
SameEstimator(d, e) == d.inst_name[1] = e.inst_name[1]
\* what the matrix holds when every task has written its region
ExpectedP ==
    [r \in Rows |-> [c \in Cols |->
        IF \E i \in DOMAIN wave : <<r, c>> \in Region(wave[i])
        THEN LET i == CHOOSE i \in DOMAIN wave : <<r, c>> \in Region(wave[i])
             IN [v |-> wave[i].inst_name[1],
                 row |-> IF FnOf(wave[i]) = "predict_est" THEN r ELSE r + (X - NRows),
                 tr |-> ChainOf(wave[i])]
        ELSE ZeroCell]]
WritingTasks == {i \in DOMAIN wave : FnOf(wave[i]) # "fit_trans"}
DistinctOffsets ==
    \A i, j \in WritingTasks :
        ~SameEstimator(wave[i], wave[j]) => wave[i].col # wave[j].col
DisjointColumns ==
    \A i, j \in WritingTasks :
        ~SameEstimator(wave[i], wave[j]) => TaskCols(wave[i]) \cap TaskCols(wave[j]) = {}
DisjointFolds ==
    \A i, j \in WritingTasks :
        (i # j /\ SameEstimator(wave[i], wave[j])) =>
            TaskRows(wave[i]) \cap TaskRows(wave[j]) = {}
WrittenOnce == \A r \in Rows, c \in Cols : Cardinality(wr[r][c]) <= 1
CallOver == phase \in {"fitted", "returned"} /\ op # ""

\* C11 as stated: when different estimators have different column offsets
\* and the folds of one estimator have disjoint held-out rows, no cell is
\* written by two tasks of one call, whatever the predictions' width.
C11_Original == (fault = NoFault /\ DistinctOffsets /\ DisjointFolds) => WrittenOnce

\* C11: when the column ranges [col, col + width) of different estimators are
\* disjoint and the folds of one estimator have disjoint held-out rows, no
\* cell is written by two tasks of one fit, predict or transform call, and a
\* call that has returned leaves the same matrix under every interleaving.
C11_DisjointWrites ==
    (DisjointColumns /\ DisjointFolds) =>
        /\ WrittenOnce
        /\ CallOver => P = ExpectedP

\* a fit with NClasses-column predictions has returned and every cell of the
\* matrix was written, by one task each
C11_Witness ==
    /\ op = "fit" /\ phase = "fitted" /\ layer.proba /\ DisjointColumns
    /\ \A r \in Rows, c \in Cols : Cardinality(wr[r][c]) = 1

\* the cells task i has written
CellsOf(i) == {c \in Rows \X Cols : i \in wr[c[1]][c[2]]}
\* the list fitted on the full data that the layer stores for a case
StoredChain(case) ==
    IF ~IsSome(layer.preprocessing_) THEN <<>>
    ELSE LET prep == PySlice(The(layer.preprocessing_), 0, 1)
         IN IF prep # <<>> /\ prep[1].case = case THEN prep[1].tr_list ELSE <<>>
FullDataEntry(e) == e.idx[1] = IdxNone

\* C12: predict hands out one predict_est task for each of the first n_pred
\* assembled estimators, which are the ones fitted on the full data, and none
\* for a per-fold estimator; the task carries the stored full-data chain of its
\* case and the column offset assigned at fit; on an X with the rows of P a
\* finished task has written all rows of its columns, the written cells hold
\* predictions made through that chain, and no other cell has changed.
C12_PredictUsesFullDataEstimators ==
    (op = "predict" /\ phase \in {"predict", "returned"}) =>
        LET ests == layer.estimators_.list
        IN /\ Len(wave) = layer.n_pred
           /\ \A m \in DOMAIN ests : FullDataEntry(ests[m]) <=> m <= layer.n_pred
           /\ \A i \in DOMAIN wave :
                 /\ FnOf(wave[i]) = "predict_est"
                 /\ wave[i].case = ests[i].case
                 /\ wave[i].inst_name = ests[i].inst_name
                 /\ wave[i].est = ests[i].est
                 /\ wave[i].col = ColOf(ests[i].case, ests[i].inst_name)
                 /\ wave[i].tr_list = StoredChain(wave[i].case)
                 /\ Len(wave[i].tr_list) = (IF preprocess THEN Len(The(engine.t)[1].inst) ELSE 0)
                 /\ CellsOf(i) = (IF tst[i].pc = "done" THEN Region(wave[i]) ELSE {})
                 /\ tst[i].pc = "done" => X = NRows
           /\ \A r \in Rows, c \in Cols :
                 \/ P[r][c] = ZeroCell /\ wr[r][c] = {}
                 \/ \E i \in wr[r][c] :
                       P[r][c] = [v |-> wave[i].inst_name[1], row |-> r,
                                  tr |-> wave[i].tr_list]

\* predict has returned on a layer with two preprocessing steps and
\* NClasses-column predictions
C12_Witness ==
    /\ op = "predict" /\ phase = "returned" /\ layer.proba
    /\ \E i \in DOMAIN wave : Len(wave[i].tr_list) = 2 /\ CellsOf(i) # {}

\* the fit_est tasks a fit of this layer hands out, and the one that fitted a
\* stored estimator
FitTasks == Delayed("fit_est", Named(engine.e))
FitTaskOf(e) == {m \in DOMAIN FitTasks : /\ FitTasks[m].case = e.case
                                         /\ FitTasks[m].inst_name = e.inst_name}
FitRegion(d) == {x - (X - NRows) : x \in Range(SliceX(X, d.tei).x.rows)}
                    \X TaskCols(d)

\* C13: transform hands out one predict_fold_est task for each assembled
\* estimator after the first n_pred; the estimators of predict followed by
\* those of transform are the assembled list, each once; a finished task has
\* written the rows of its stored held-out index, each moved up by
\* rows(X) - rows(P), in its columns, and nothing else, and these are the cells
\* of the fit task that fitted the same fold estimator; every written cell
\* holds the prediction for the held-out row of X made through the fold's
\* fitted steps.
C13_TransformUsesFoldEstimators ==
    /\ (layer.estimators_.kind = "list") =>
           _retrieve("full").ests \o _retrieve("fold").ests = layer.estimators_.list
    /\ (op = "transform" /\ phase \in {"transform", "returned"}) =>
        LET ests == layer.estimators_.list
            n == layer.n_pred
        IN /\ Len(wave) = Len(ests) - n
           /\ \A i \in DOMAIN wave :
                 /\ FnOf(wave[i]) = "predict_fold_est"
                 /\ wave[i].case = ests[n + i].case
                 /\ wave[i].inst_name = ests[n + i].inst_name
                 /\ wave[i].est = ests[n + i].est
                 /\ wave[i].tei = ests[n + i].idx[1]
                 /\ wave[i].col = ests[n + i].idx[2]
                 /\ CellsOf(i) = (IF tst[i].pc = "done" THEN Region(wave[i]) ELSE {})
                 /\ tst[i].pc = "done" =>
                       /\ wave[i].tei.kind # "none"
                       /\ \A m \in FitTaskOf(ests[n + i]) :
                             CellsOf(i) = FitRegion(FitTasks[m])
                       /\ FitTaskOf(ests[n + i]) # {}
           /\ \A r \in Rows, c \in Cols :
                 \/ P[r][c] = ZeroCell /\ wr[r][c] = {}
                 \/ \E i \in wr[r][c] :
                       P[r][c] = [v |-> wave[i].inst_name[1], row |-> r + (X - NRows),
                                  tr |-> wave[i].tr_list]
    /\ (op = "fit" /\ InCall) =>
          \A i \in DOMAIN wave :
             (FnOf(wave[i]) = "fit_est" /\ wave[i].tei.kind # "none") =>
                 CellsOf(i) \in {{}, FitRegion(wave[i])}

\* transform has returned on an X with Shift more rows than P, with every fold
\* task having written its held-out rows
C13_Witness ==
    /\ op = "transform" /\ phase = "returned" /\ X = NRows + Shift
    /\ preprocess
    /\ \A i \in DOMAIN wave : CellsOf(i) # {}
    /\ Len(wave) = NEst * NFolds

EstKeys == {KeyE(FitTasks[m].case, FitTasks[m].inst_name) : m \in DOMAIN FitTasks}
TransCases == IF preprocess THEN The(engine.t) ELSE <<>>
TransKeys == {KeyT(TransCases[m].case) : m \in DOMAIN TransCases}

\* C14: when fit has returned, the cache holds the estimator keys of the
\* (case, instance) pairs of the estimator task list and the transformer keys
\* of the transformer cases and no other key, distinct pairs and cases have
\* distinct file names, the assembled estimator list has the pairs of the task
\* list in its order, each with what its cache entry holds, and the assembled
\* preprocessing list has the transformer cases in their order (None without
\* preprocessing).
C14_OneEntryPerTask ==
    (op = "fit" /\ phase = "fitted") =>
        /\ DOMAIN cache = EstKeys \cup TransKeys
        /\ Cardinality(EstKeys) = Len(FitTasks)
        /\ Cardinality(TransKeys) = Len(TransCases)
        /\ \A k1, k2 \in DOMAIN cache : Path(k1) = Path(k2) => k1 = k2
        /\ Len(layer.estimators_.list) = Len(FitTasks)
        /\ \A m \in DOMAIN FitTasks :
              LET e == layer.estimators_.list[m]
                  c == cache[KeyE(FitTasks[m].case, FitTasks[m].inst_name)]
              IN /\ e.case = FitTasks[m].case
                 /\ e.inst_name = FitTasks[m].inst_name
                 /\ e.est = c.est /\ e.idx = c.idx
        /\ IsSome(layer.preprocessing_) <=> preprocess
        /\ preprocess =>
              /\ Len(The(layer.preprocessing_)) = Len(TransCases)
              /\ \A m \in DOMAIN TransCases :
                    /\ The(layer.preprocessing_)[m].case = TransCases[m].case
                    /\ The(layer.preprocessing_)[m].tr_list = cache[KeyT(TransCases[m].case)]

\* a fit without a failure has returned: NEst full-data and NEst * NFolds
\* per-fold estimator entries and one transformer entry for each of the
\* 1 + NFolds cases
C14_Witness ==
    /\ op = "fit" /\ phase = "fitted" /\ fault = NoFault /\ preprocess
    /\ Cardinality(EstKeys \cap DOMAIN cache) = NEst + NEst * NFolds
    /\ Cardinality(TransKeys \cap DOMAIN cache) = 1 + NFolds

\* ------------------------------------------------------------ Slice Engine
\* _slice_array on its own: the call's arguments are in wave, its result in tst.
SliceRanges(n) == (0..n) \X (0..n)
SliceIdx(n) ==
    {IdxNone}
    \cup {IdxRange(r[1], r[2]) : r \in SliceRanges(n)}
    \cup {IdxRanges(<<r>>) : r \in SliceRanges(n)}
    \cup {IdxRanges(<<r, q>>) : r \in SliceRanges(n), q \in SliceRanges(n)}
InitSlice ==
    /\ op = "_slice_array" /\ phase = "call"
    /\ X = NRows
    /\ layer = NewLayer(FALSE, Nothing)
    /\ engine = [dual |-> TRUE, t |-> Nothing, e |-> <<>>, c |-> 1]
    /\ fault = NoFault
    /\ err = "" /\ cache = <<>> /\ P = Zeros /\ wr = NoWrites /\ warned = {}
    /\ tst = <<>>
    /\ \E n \in 0..SliceLen :
          \E x \in [1..n -> 1..2], y \in {Nothing} \cup {Some(yy) : yy \in [1..n -> 3..4]},
             idx \in SliceIdx(n) :
                wave = << [x |-> x, y |-> y, idx |-> idx] >>
slice_call ==
    /\ phase = "call"
    /\ tst' = << _slice_array(wave[1].x, wave[1].y, wave[1].idx) >>
    /\ phase' = "sliced"
    /\ UNCHANGED <<op, X, layer, engine, fault, cache, P, wr, err, warned, wave>>
SpecSlice == InitSlice /\ [][slice_call]_vars

\* rows a .. b-1 of s (numbered from 0), in order
RowsOf(s, r) == SubSeq(s, r[1] + 1, r[2])
Sliced(s, idx) ==
    IF idx.kind = "none" THEN s
    ELSE IF idx.kind = "range" THEN RowsOf(s, idx.rs[1])
    ELSE Flatten([m \in DOMAIN idx.rs |-> RowsOf(s, idx.rs[m])])

\* C15: _slice_array with index None returns x and y as they are and the
\* index None; with one range (a, b) it returns rows a .. b-1 in order; with a
\* sequence of ranges it returns the rows of each range, one range after the
\* other in the order given; y is sliced as x is, and the resolved index lists
\* the row numbers taken.
C15_SliceRows ==
    (op = "_slice_array" /\ phase = "sliced") =>
        LET in == wave[1]
            out == tst[1]
        IN /\ out.err = ""
           /\ out.x = Sliced(in.x, in.idx)
           /\ IsSome(out.y) <=> IsSome(in.y)
           /\ IsSome(in.y) => The(out.y) = Sliced(The(in.y), in.idx)
           /\ IsSome(out.idx) <=> in.idx.kind # "none"
           /\ IsSome(out.idx) =>
                 /\ Len(The(out.idx)) = Len(out.x)
                 /\ \A i \in DOMAIN out.x : out.x[i] = in.x[The(out.idx)[i] + 1]
                 /\ IsSome(in.y) =>
                       \A i \in DOMAIN out.x : The(out.y)[i] = The(in.y)[The(out.idx)[i] + 1]

\* a slice by two ranges given out of order, of an x with differing rows and a y
C15_Witness ==
    /\ op = "_slice_array" /\ phase = "sliced"
    /\ wave[1].idx = IdxRanges(<< <<2, 3>>, <<0, 2>> >>)
    /\ wave[1].x = <<1, 2, 1>> /\ IsSome(wave[1].y)
    /\ tst[1].x = <<1, 1, 2>>

\* the transform of the last step of task d's case is the call that raises
LastTransformFails(d) == Fails("tr_chain", d.case, <<d.inst[Len(d.inst)]>>)

\* C18: in the list fit_trans saves, step k was fitted on the input as
\* transformed by steps 1 .. k-1; the transform of the last step of a case is
\* not called, so a last step whose transform would raise does not make the
\* task fail.
C18_Claim ==
    \A i \in DOMAIN wave :
        (op = "fit" /\ FnOf(wave[i]) = "fit_trans") =>
            /\ exists(KeyT(wave[i].case)) =>
                  LET out == pickle_load(KeyT(wave[i].case))
                  IN /\ Len(out) = Len(wave[i].inst)
                     /\ \A k \in DOMAIN out :
                           out[k].pre = SubSeq([m \in DOMAIN out |-> out[m].name], 1, k - 1)
            /\ LastTransformFails(wave[i]) => tst[i].pc # "raised"

\* C19: a cell of row r that a fit_est or predict_fold_est task has written
\* holds the prediction for row r + (rows(X) - rows(P)) of X, a row of the
\* task's held-out index (row r itself when X and P have the same rows); the
\* index saved in a fold estimator's cache entry is the test index of the task
\* list, in rows of X.
C19_ShiftedRows ==
    (op \in {"fit", "transform"}) =>
        /\ \A r \in Rows, c \in Cols : \A i \in wr[r][c] :
              /\ P[r][c].row = r + (X - NRows)
              /\ P[r][c].row \in Range(SliceX(X, wave[i].tei).x.rows)
              /\ X = NRows => P[r][c].row = r
        /\ \A i \in DOMAIN wave :
              (FnOf(wave[i]) = "fit_est" /\ exists(KeyE(wave[i].case, wave[i].inst_name))) =>
                  LET idx == pickle_load(KeyE(wave[i].case, wave[i].inst_name)).idx
                  IN /\ idx = <<wave[i].tei, wave[i].col>>
                     /\ \E m \in DOMAIN engine.e :
                           engine.e[m].case = wave[i].case /\ idx[1] = engine.e[m].tei
                     /\ idx[1].kind # "none" =>
                           \A x \in Range(SliceX(X, idx[1]).x.rows) :
                               x - (X - NRows) \in Rows
        /\ \A i \in DOMAIN wave :
              (FnOf(wave[i]) = "predict_fold_est" /\ tst[i].pc = "done") =>
                  \A x \in Range(SliceX(X, wave[i].tei).x.rows) :
                      \A c \in TaskCols(wave[i]) : i \in wr[x - (X - NRows)][c]

\* a fit on an X with Shift more rows than P has returned: row 0 of P holds
\* the prediction for row Shift of X, and the first fold's entries keep the
\* index that starts at Shift
C19_Witness ==
    /\ op = "fit" /\ phase = "fitted" /\ X = NRows + Shift
    /\ P[0][0].row = Shift
    /\ \E i \in DOMAIN wave :
          /\ exists(KeyE(wave[i].case, wave[i].inst_name))
          /\ pickle_load(KeyE(wave[i].case, wave[i].inst_name)).idx[1] = TestIdx(1)
          /\ FoldStart(1) = Shift

\* the key task i saves under, and the tasks of the current call that own a key
OwnKey(i) == IF FnOf(wave[i]) = "fit_trans" THEN KeyT(wave[i].case)
             ELSE KeyE(wave[i].case, wave[i].inst_name)
Owners(key) == {i \in DOMAIN wave : OwnKey(i) = key}

\* C20: during fit a key is in the cache only when the task that saves it has
\* ended without raising: for a fit_est task after the call of the estimator's
\* fit (the entry holds what that call returned, trained on the task's rows)
\* and, for a per-fold task, after its cells were written; for a fit_trans
\* task after every step of the case was fitted.  Keys of no task of the
\* running parallel call are those of the transformer wave that has returned.
C20_SaveIsLast ==
    (op = "fit" /\ phase \in {"fit_trans", "fit_est", "fit_all", "raised", "fitted"}) =>
        /\ \A i \in DOMAIN wave :
              exists(OwnKey(i)) =>
                  /\ tst[i].pc = "done"
                  /\ FnOf(wave[i]) = "fit_est" =>
                        LET e == pickle_load(OwnKey(i))
                        IN /\ wave[i].tei.kind # "none" =>
                                 /\ CellsOf(i) = Region(wave[i])
                                 /\ IsSome(e.est)
                           /\ IsSome(e.est) =>
                                 /\ The(e.est).name = wave[i].inst_name
                                 /\ The(e.est).rows = SliceX(X, wave[i].tri).x.rows
                           /\ ~IsSome(e.est) =>
                                 <<"FitFailedWarning", wave[i].case, wave[i].inst_name>> \in warned
                  /\ FnOf(wave[i]) = "fit_trans" =>
                        LET out == pickle_load(OwnKey(i))
                        IN /\ Len(out) = Len(wave[i].inst)
                           /\ \A k \in DOMAIN out : out[k].name = wave[i].inst[k]
        /\ \A i \in DOMAIN wave : tst[i].pc # "done" => ~exists(OwnKey(i))
        /\ \A key \in DOMAIN cache :
              Owners(key) = {} => engine.dual /\ preprocess /\ key \in TransKeys

\* one task's entry is in the cache while a per-fold task that has written its
\* cells has not saved yet, and a third task has raised
C20_Witness ==
    /\ op = "fit" /\ phase = "fit_est"
    /\ \E i, j, k \in DOMAIN wave :
          /\ exists(OwnKey(i)) /\ tst[i].pc = "done"
          /\ tst[j].pc = "save" /\ CellsOf(j) # {} /\ ~exists(OwnKey(j))
          /\ tst[k].pc = "raised" /\ ~exists(OwnKey(k))

\* the rows an index specification names, and the fold tasks of estimator e
RangeRows(idx) == UNION {r[1]..(r[2] - 1) : r \in Range(idx.rs)}
FoldTasksOf(e) ==
    {i \in DOMAIN wave : /\ FnOf(wave[i]) = "fit_est" /\ wave[i].tei.kind # "none"
                         /\ wave[i].inst_name[1] = e}
\* the test indexes of estimator e's folds, moved to rows of P, partition them
FoldsPartition(e) ==
    /\ \A r \in Rows : \E i \in FoldTasksOf(e) : r + (X - NRows) \in RangeRows(wave[i].tei)
    /\ \A i, j \in FoldTasksOf(e) :
          i # j => RangeRows(wave[i].tei) \cap RangeRows(wave[j].tei) = {}
    /\ \A i \in FoldTasksOf(e) : \A x \in RangeRows(wave[i].tei) : x - (X - NRows) \in Rows

RaisesTimeout(i) ==
    /\ InLoadTrans(i)
    /\ tst'[i].pc = "raised"
    /\ tst'[i].err = "ParallelProcessingError"

\* C22: _load_trans raises its timeout error only when the key is absent from
\* the Cache Store at the moment of the raise: a key published during the
\* last sleep before the timeout check is loaded, never reported as missing.
C22_Claim ==
    [][\A i \in DOMAIN wave :
          RaisesTimeout(i) => ~exists(KeyT(wave[i].case))]_vars

\* ------------------------------------------------------- Score Aggregator
\* _build_scores on its own, on the (key, score) pairs _assemble makes of an
\* estimator task list: a root entry for every case and estimator, then an
\* entry for every case, fold and estimator, the fold number appended to the
\* case name and to the estimator name with '__' (a layer without cases has
\* the case None and the fold number alone as the case of a fold).  The call's
\* arguments are in wave, its result in tst.  Each pair also carries which
\* case and estimator it belongs to.
NameA == <<"a">>
NameB == <<"b">>
NameAB == <<"a", "_", "_", "b">>
NameE == <<"e">>
NameF == <<"f">>
NameEF == <<"e", "_", "_", "f">>
ScoreCases == {<<Nothing>>, <<Some(NameA)>>, <<Some(NameAB)>>,
               <<Some(NameA), Some(NameB)>>, <<Some(NameA), Some(NameAB)>>}
ScoreEsts == {<<NameE>>, <<NameE, NameF>>, <<NameEF>>, <<NameE, NameEF>>}
ScoreVals == {Nothing, Some(1), Some(3)}
FoldCaseName(case, k) == IF IsSome(case) THEN Some(The(case) \o Sep2 \o Chr(k)) ELSE Some(Chr(k))
ScorePairs(cases, ests, sc) ==
    Flatten([c \in DOMAIN cases |->
        [e \in DOMAIN ests |->
            [k |-> ScoreKey(cases[c], ests[e]), v |-> Nothing, case |-> c, est |-> e]]])
    \o Flatten(Flatten([c \in DOMAIN cases |->
        [f \in 1..NFolds |->
            [e \in DOMAIN ests |->
                [k |-> ScoreKey(FoldCaseName(cases[c], f), ests[e] \o Sep2 \o Chr(f)),
                 v |-> IF IsSome(sc[e][f]) THEN Some(The(sc[e][f]) + 10 * (c - 1))
                       ELSE Nothing,
                 case |-> c, est |-> e]]]]))
InitScores ==
    /\ op = "_build_scores" /\ phase = "call"
    /\ X = NRows
    /\ \E roe \in BOOLEAN : layer = NewLayer(roe, Nothing)
    /\ engine = [dual |-> TRUE, t |-> Nothing, e |-> <<>>, c |-> 1]
    /\ fault = NoFault
    /\ err = "" /\ cache = <<>> /\ P = Zeros /\ wr = NoWrites /\ warned = {}
    /\ tst = <<>>
    /\ \E cases \in ScoreCases, ests \in ScoreEsts, sc \in [1..2 -> [1..NFolds -> ScoreVals]] :
          wave = << [s |-> ScorePairs(cases, ests, sc),
                     n_pred |-> Len(cases) * Len(ests)] >>
build_call ==
    /\ phase = "call"
    /\ LET b == _build_scores(wave[1].s, wave[1].n_pred, layer.raise_on_exception)
       IN /\ tst' = <<b>>
          /\ err' = b.err
          /\ phase' = IF b.err = "" THEN "built" ELSE "raised"
          /\ layer' = IF b.err = "" THEN [layer EXCEPT !.scores_ = Some(b.scores)] ELSE layer
          /\ warned' = IF b.err = "" THEN {<<"ParallelProcessingWarning", <<>>, k>> : k \in b.warned}
                       ELSE {}
    /\ UNCHANGED <<op, X, engine, fault, cache, P, wr, wave>>
SpecScores == InitScores /\ [][build_call]_vars

BuildOver == op = "_build_scores" /\ phase \in {"built", "raised"}
RootPairs == PySlice(wave[1].s, 0, wave[1].n_pred)
FoldPairs == PySlice(wave[1].s, wave[1].n_pred, Len(wave[1].s))
\* the scores of the fold entries of a root entry's case and estimator, in order
RECURSIVE ScoresFor(_, _)
ScoresFor(r, folds) ==
    IF folds = <<>> THEN <<>>
    ELSE (IF Head(folds).case = r.case /\ Head(folds).est = r.est
          THEN <<Head(folds).v>> ELSE <<>>) \o ScoresFor(r, Tail(folds))
AllScored == \A i \in DOMAIN FoldPairs : IsSome(FoldPairs[i].v)

\* C16: _build_scores returns a table with one key for each root entry, and
\* under the key of a root entry the mean and standard deviation of the scores
\* of exactly the fold entries of that entry's case and estimator.
C16_Claim ==
    (BuildOver /\ AllScored) =>
        /\ tst[1].err = ""
        /\ Cardinality(DOMAIN tst[1].scores) = wave[1].n_pred
        /\ \A i \in DOMAIN RootPairs :
              /\ RootName(RootPairs[i].k) \in DOMAIN tst[1].scores
              /\ tst[1].lists[RootName(RootPairs[i].k)] = ScoresFor(RootPairs[i], FoldPairs)
              /\ tst[1].scores[RootName(RootPairs[i].k)]
                     = Some(MeanStd(ScoresFor(RootPairs[i], FoldPairs)))

\* a list that was to be reduced holds a None
Failing(k) == k \in DOMAIN tst[1].lists /\ HasNone(tst[1].lists[k])
Reducing == BuildOver /\ tst[1].err \notin {"KeyError", "ValueError"}

\* C17 as stated: without raise_on_exception a group that cannot be reduced
\* leaves no key in the table.
C17_Original ==
    (Reducing /\ ~layer.raise_on_exception) =>
        \A k \in DOMAIN tst[1].lists : Failing(k) => k \notin DOMAIN tst[1].scores

\* C17: when a group of fold scores cannot be reduced, _build_scores raises
\* ParallelProcessingError if raise_on_exception is set; if it is unset a
\* ParallelProcessingWarning is emitted for the group, the call returns, and
\* the table holds the group's key with the value None.
C17_FailedReduction ==
    Reducing =>
        \A k \in DOMAIN tst[1].lists :
            Failing(k) =>
                IF layer.raise_on_exception
                THEN /\ err = "ParallelProcessingError" /\ phase = "raised"
                     /\ ~IsSome(layer.scores_)
                ELSE /\ err = "" /\ phase = "built"
                     /\ <<"ParallelProcessingWarning", <<>>, k>> \in warned
                     /\ k \in DOMAIN The(layer.scores_)
                     /\ The(layer.scores_)[k] = Nothing

\* a table built without raise_on_exception in which one estimator's group
\* failed and the other's was reduced
C17_Witness ==
    /\ BuildOver /\ ~layer.raise_on_exception /\ phase = "built"
    /\ \E k \in DOMAIN tst[1].lists : Failing(k)
    /\ \E k \in DOMAIN tst[1].lists : ~Failing(k) /\ IsSome(The(layer.scores_)[k])

\* ------------------------------------------------------- fold indexes at large
\* A layer whose indexer puts the folds anywhere in X: the folds split NRows
\* consecutive rows of X beginning at row first, the other rows of X are
\* training rows of every fold.  The engine takes the index tuples of its task
\* lists as they come; nothing compares them with the rows of P.
FoldIdxFrom(first, k) ==
    IdxRange(first + ((k - 1) * NRows) \div NFolds, first + (k * NRows) \div NFolds)
RestIdx(idx) ==
    LET lo == <<0, idx.rs[1][1]>>
        hi == <<idx.rs[1][2], X>>
    IN IF lo[2] = 0 THEN IdxRange(hi[1], hi[2])
       ELSE IF hi[1] = X THEN IdxRange(lo[1], lo[2])
       ELSE IdxRanges(<<lo, hi>>)
TListFrom(first, n) ==
    [m \in DOMAIN TList(n) |->
        IF m = 1 THEN TList(n)[m]
        ELSE [TList(n)[m] EXCEPT !.tri = RestIdx(FoldIdxFrom(first, m - 1))]]
EListFrom(first) ==
    [m \in DOMAIN EList |->
        IF m = 1 THEN EList[m]
        ELSE [EList[m] EXCEPT !.tri = RestIdx(FoldIdxFrom(first, m - 1)),
                              !.tei = FoldIdxFrom(first, m - 1)]]

InitRebase ==
    /\ op = "" /\ phase = "new"
    /\ X \in {NRows, NRows + Shift}
    /\ \E roe \in BOOLEAN, dual \in BOOLEAN, cm \in ColumnMaps, first \in 0..(X - NRows) :
       \E t \in {Nothing} \cup {Some(TListFrom(first, n)) : n \in 1..NSteps} :
          /\ layer = [NewLayer(roe, t) EXCEPT !.proba = cm[1]]
          /\ engine = [dual |-> dual, t |-> t, e |-> EListFrom(first), c |-> cm[2]]
          /\ fault \in Faults(t)
    /\ Quiet
SpecRebase == InitRebase /\ [][Next]_vars

\* the row index a write of the prediction for row x of X is made with
Rebased(x) == x - (X - NRows)

\* C23: every row index that fit_est and predict_fold_est write into P with
\* lies in [0, rows(P)) after the shift by rows(X) - rows(P): no task writes
\* the prediction for a held-out row at an index below 0 (a row counted from
\* the end of P), and none fails on an index past the last row.
C23_Claim ==
    /\ \A r \in Rows, c \in Cols :
          (wr[r][c] # {} /\ op \in {"fit", "transform"}) => Rebased(P[r][c].row) \in Rows
    /\ \A i \in DOMAIN tst : tst[i].err # "IndexError"

====
